---- MODULE Spec2Model ----
(***************************************************************************)
(* Volume explorer: the HTTP file API and SQL console of src/index.ts.     *)
(*                                                                         *)
(* Strings are sequences of one-character strings, so that the string      *)
(* operations of the source (replace, startsWith, lastIndexOf, substring,  *)
(* split, trim) are computed character by character.  File contents are    *)
(* sequences of UTF-16 code units; bytes on disk are sequences of          *)
(* integers 0..255.                                                        *)
(***************************************************************************)
EXTENDS Integers, Sequences, FiniteSets, TLC

VARIABLES
    VOLUME_ROOT,   \* index.ts:582  absolute, normalised root directory
    hasPg,         \* index.ts:579  TRUE iff DATABASE_URL was set at startup
    fs,            \* the filesystem tree: physical path -> node
    req,           \* the request being answered
    resp,          \* the response of the handler to req
    sqlCalls,      \* the texts handed to the SQL driver, oldest first
    dbReply,       \* what the SQL driver answered while req was served
    added,         \* the paths the handling of req added to the filesystem
    history,       \* the exchanges served before req, oldest first
    flight,        \* SpecRace: the handler suspended at one of its awaits
    ui,            \* SpecConsole, SpecBrowser: the state of the React components
    arg,           \* SpecPath: the argument safePath is applied to
    resolved       \* SpecPath: what safePath returned for arg

vars == <<VOLUME_ROOT, hasPg, fs, req, resp, sqlCalls, dbReply, added, history, flight,
          ui, arg, resolved>>

----------------------------------------------------------------------------
(* Bounds *)

\* longest logical path enumerated for safePath
MaxLen == 5

\* characters logical paths are built from
PathChars == {"/", ".", "a", "b"}

\* the roots the server is started with
Roots == { <<"/", "a">>, <<"/", "a", "/", "b">> }

Str(n) == UNION { [1..k -> PathChars] : k \in 0..n }

----------------------------------------------------------------------------
(* String helpers (JavaScript String.prototype) *)

\* String.prototype.startsWith
startsWith(s, prefix) ==
    /\ Len(prefix) =< Len(s)
    /\ SubSeq(s, 1, Len(prefix)) = prefix

\* s.replace(/^\/+/, ""): drop every leading slash
RECURSIVE StripLeadingSlashes(_)
StripLeadingSlashes(s) ==
    IF s # <<>> /\ Head(s) = "/" THEN StripLeadingSlashes(Tail(s)) ELSE s

\* s.replace(/^\//, ""): drop one leading slash only
StripOneSlash(s) ==
    IF s # <<>> /\ Head(s) = "/" THEN Tail(s) ELSE s

\* s.lastIndexOf("/"), 1-based; 0 when there is none (JavaScript: -1)
RECURSIVE lastIndexOfSlash(_)
lastIndexOfSlash(s) ==
    IF s = <<>> THEN 0
    ELSE IF s[Len(s)] = "/" THEN Len(s)
    ELSE lastIndexOfSlash(SubSeq(s, 1, Len(s) - 1))

\* s.split("/")
RECURSIVE SplitAcc(_, _, _)
SplitAcc(s, cur, acc) ==
    IF s = <<>> THEN Append(acc, cur)
    ELSE IF Head(s) = "/" THEN SplitAcc(Tail(s), <<>>, Append(acc, cur))
    ELSE SplitAcc(Tail(s), Append(cur, Head(s)), acc)

split(s) == SplitAcc(s, <<>>, <<>>)

\* segs.join("/")
RECURSIVE joinSlash(_)
joinSlash(segs) ==
    IF segs = <<>> THEN <<>>
    ELSE IF Len(segs) = 1 THEN segs[1]
    ELSE segs[1] \o <<"/">> \o joinSlash(Tail(segs))

----------------------------------------------------------------------------
(* node:path (posix) *)

DotDot == <<".", ".">>

\* normalizeString: collapse "", "." and ".." segments
RECURSIVE NormAcc(_, _, _)
NormAcc(segs, stack, allowAboveRoot) ==
    IF segs = <<>> THEN stack
    ELSE LET g == Head(segs)
             rest == Tail(segs)
         IN IF g = <<>> \/ g = <<".">> THEN NormAcc(rest, stack, allowAboveRoot)
            ELSE IF g = DotDot
                 THEN IF stack # <<>> /\ stack[Len(stack)] # DotDot
                      THEN NormAcc(rest, SubSeq(stack, 1, Len(stack) - 1), allowAboveRoot)
                      ELSE IF allowAboveRoot
                           THEN NormAcc(rest, Append(stack, g), allowAboveRoot)
                           ELSE NormAcc(rest, stack, allowAboveRoot)
                 ELSE NormAcc(rest, Append(stack, g), allowAboveRoot)

normalizeString(path, allowAboveRoot) ==
    joinSlash(NormAcc(split(path), <<>>, allowAboveRoot))

isAbsolute(path) == path # <<>> /\ Head(path) = "/"

\* path.normalize
normalize(path) ==
    IF path = <<>> THEN <<".">>
    ELSE LET abs == isAbsolute(path)
             trailing == path[Len(path)] = "/"
             n == normalizeString(path, ~abs)
             m == IF n # <<>> /\ trailing THEN n \o <<"/">> ELSE n
         IN IF abs THEN <<"/">> \o m
            ELSE IF n = <<>> THEN (IF trailing THEN <<".", "/">> ELSE <<".">>)
            ELSE m

\* path.join(a, b): the non-empty arguments joined by "/", then normalised
join(a, b) ==
    IF a = <<>> /\ b = <<>> THEN <<".">>
    ELSE IF a = <<>> THEN normalize(b)
    ELSE IF b = <<>> THEN normalize(a)
    ELSE normalize(a \o <<"/">> \o b)

\* path.resolve(from, to) for an absolute `from`: the rightmost absolute
\* argument wins, empty arguments are skipped, the result is normalised and
\* carries no trailing slash
resolve(from, to) ==
    IF isAbsolute(to) THEN <<"/">> \o normalizeString(to, FALSE)
    ELSE <<"/">> \o normalizeString(from \o <<"/">> \o to, FALSE)

----------------------------------------------------------------------------
(* Path sandbox *)

PathTraversal == [ok |-> FALSE, path |-> <<>>]

\* the sandbox stripping a single leading slash
safePathOneSlash(requestedPath) ==
    LET cleaned == StripOneSlash(requestedPath)
        res == resolve(VOLUME_ROOT, cleaned)
    IN IF ~startsWith(res, VOLUME_ROOT) THEN PathTraversal
       ELSE [ok |-> TRUE, path |-> res]

\* index.ts:584-592
safePath(requestedPath) ==
    LET cleaned == StripLeadingSlashes(requestedPath)
        res == resolve(VOLUME_ROOT, cleaned)
    IN IF ~startsWith(res, VOLUME_ROOT) THEN PathTraversal
       ELSE [ok |-> TRUE, path |-> res]

----------------------------------------------------------------------------
(* UTF-8 (Bun.write of a string, BunFile.text) *)

REPLACEMENT == 65533
BOM == 65279

isSurrogate(u) == u >= 55296 /\ u =< 57343
isCont(b) == b >= 128 /\ b =< 191

\* the bytes of one code unit, one byte per unit (the low byte)
encodeUnitLatin1(u) == <<u % 256>>

\* the bytes of one UTF-16 code unit of the Basic Multilingual Plane; an
\* unpaired surrogate is written as U+FFFD (the model's texts hold no
\* surrogate pair)
encodeUnit(u) ==
    LET c == IF isSurrogate(u) THEN REPLACEMENT ELSE u
    IN IF c < 128 THEN <<c>>
       ELSE IF c < 2048 THEN <<192 + (c \div 64), 128 + (c % 64)>>
       ELSE <<224 + (c \div 4096), 128 + ((c \div 64) % 64), 128 + (c % 64)>>

RECURSIVE encodeUTF8(_)
encodeUTF8(units) ==
    IF units = <<>> THEN <<>>
    ELSE encodeUnit(Head(units)) \o encodeUTF8(Tail(units))

\* UTF-8 decoding with replacement of ill-formed bytes (1- to 3-byte forms)
RECURSIVE decodeUTF8(_)
decodeUTF8(bytes) ==
    IF bytes = <<>> THEN <<>>
    ELSE LET b == bytes[1]
             n == Len(bytes)
         IN IF b < 128 THEN <<b>> \o decodeUTF8(Tail(bytes))
            ELSE IF b >= 194 /\ b =< 223 /\ n >= 2 /\ isCont(bytes[2])
                 THEN <<(b - 192) * 64 + (bytes[2] - 128)>>
                      \o decodeUTF8(SubSeq(bytes, 3, n))
            ELSE IF /\ b >= 224 /\ b =< 239 /\ n >= 3
                    /\ isCont(bytes[2]) /\ isCont(bytes[3])
                    /\ (b = 224 => bytes[2] >= 160)
                    /\ (b = 237 => bytes[2] =< 159)
                 THEN <<(b - 224) * 4096 + (bytes[2] - 128) * 64 + (bytes[3] - 128)>>
                      \o decodeUTF8(SubSeq(bytes, 4, n))
            ELSE <<REPLACEMENT>> \o decodeUTF8(Tail(bytes))

\* A text is `units` followed by `pad` further "a" characters; file data is
\* `bytes` followed by `pad` further 0x61 bytes.  The padding stands for a
\* long run of ASCII and lets a file reach the preview limit.

\* Bun.write(path, string): the string's UTF-8 encoding
encodeText(text) == [bytes |-> encodeUTF8(text.units), pad |-> text.pad]

\* BunFile.text(): UTF-8 decoding, a leading byte-order mark dropped
decodeText(data) ==
    LET u == decodeUTF8(data.bytes)
    IN [units |-> IF u # <<>> /\ u[1] = BOM THEN Tail(u) ELSE u,
        pad |-> data.pad]

\* stats.size of a regular file
byteSize(data) == Len(data.bytes) + data.pad

----------------------------------------------------------------------------
(* The filesystem: fs maps each existing absolute path to its node *)

DirNode == [isDir |-> TRUE, data |-> [bytes |-> <<>>, pad |-> 0], dangling |-> FALSE]
FileNode(data) == [isDir |-> FALSE, data |-> data, dangling |-> FALSE]

\* a symbolic link whose target is missing: readdir reports it as a
\* non-directory, and every call that follows the link fails with ENOENT
LinkNode == [isDir |-> FALSE, data |-> [bytes |-> <<>>, pad |-> 0], dangling |-> TRUE]

FsRoot == <<"/">>

\* the directory holding the absolute, normalised path p
fsParent(p) ==
    IF lastIndexOfSlash(p) =< 1 THEN FsRoot
    ELSE SubSeq(p, 1, lastIndexOfSlash(p) - 1)

\* the last segment of the absolute, normalised path p
baseName(p) == SubSeq(p, lastIndexOfSlash(p) + 1, Len(p))

\* p and every directory above it, "/" included
RECURSIVE fsChain(_)
fsChain(p) == IF p = FsRoot THEN {p} ELSE {p} \cup fsChain(fsParent(p))

isUnder(q, p) == IF p = FsRoot THEN q # p ELSE startsWith(q, p \o <<"/">>)

extend(f, ps, node) ==
    [q \in DOMAIN f \cup ps |-> IF q \in DOMAIN f THEN f[q] ELSE node]

\* fs.exists(p)
fsExists(f, p) == p \in DOMAIN f /\ ~f[p].dangling

\* mkdir(p) without the recursive option: fails when p exists or when the
\* parent of p is missing
fsMkdirPlain(f, p) ==
    IF p = <<>> THEN [ok |-> FALSE, fs |-> f, error |-> "ENOENT"]
    ELSE IF p \in DOMAIN f THEN [ok |-> FALSE, fs |-> f, error |-> "EEXIST"]
    ELSE IF fsParent(p) \notin DOMAIN f
         THEN [ok |-> FALSE, fs |-> f, error |-> "ENOENT"]
    ELSE IF ~f[fsParent(p)].isDir
         THEN [ok |-> FALSE, fs |-> f, error |-> "ENOTDIR"]
    ELSE [ok |-> TRUE, fs |-> extend(f, {p}, DirNode), error |-> ""]

\* mkdir(p, {recursive: true}): fails on the empty path and when p or an
\* ancestor of p is a file; creates every missing directory of the chain
fsMkdirP(f, p) ==
    IF p = <<>> THEN [ok |-> FALSE, fs |-> f, error |-> "ENOENT"]
    ELSE IF \E q \in fsChain(p) : q \in DOMAIN f /\ ~f[q].isDir
         THEN [ok |-> FALSE, fs |-> f,
               error |-> IF p \in DOMAIN f THEN "EEXIST" ELSE "ENOTDIR"]
    ELSE [ok |-> TRUE, fs |-> extend(f, fsChain(p), DirNode), error |-> ""]

\* Bun.write(p, data, {createPath: false}): fails when the parent of p is
\* missing
BunWriteNoCreatePath(f, p, data) ==
    IF p \in DOMAIN f /\ f[p].isDir
    THEN [ok |-> FALSE, fs |-> f, error |-> "EISDIR"]
    ELSE IF fsParent(p) \notin DOMAIN f
         THEN [ok |-> FALSE, fs |-> f, error |-> "ENOENT"]
    ELSE IF ~f[fsParent(p)].isDir
         THEN [ok |-> FALSE, fs |-> f, error |-> "ENOTDIR"]
    ELSE [ok |-> TRUE, error |-> "",
          fs |-> [q \in DOMAIN f \cup {p} |->
                     IF q = p THEN FileNode(data) ELSE f[q]]]

\* Bun.write(p, data): createPath defaults to true, so the missing parent
\* directories are created; fails when p is a directory or an ancestor of p
\* is a file; replaces the data of an existing file
BunWrite(f, p, data) ==
    IF p \in DOMAIN f /\ f[p].isDir
    THEN [ok |-> FALSE, fs |-> f, error |-> "EISDIR"]
    ELSE IF \E q \in fsChain(fsParent(p)) : q \in DOMAIN f /\ ~f[q].isDir
         THEN [ok |-> FALSE, fs |-> f, error |-> "ENOTDIR"]
    ELSE LET g == extend(f, fsChain(fsParent(p)), DirNode)
         IN [ok |-> TRUE, error |-> "",
             fs |-> [q \in DOMAIN g \cup {p} |->
                        IF q = p THEN FileNode(data) ELSE g[q]]]

\* rm(p, {recursive: true}) that empties p and leaves p itself in place
fsRmContentsOnly(f, p) ==
    IF p \notin DOMAIN f THEN [ok |-> FALSE, fs |-> f, error |-> "ENOENT"]
    ELSE [ok |-> TRUE, error |-> "",
          fs |-> [q \in {x \in DOMAIN f : ~isUnder(x, p)} |-> f[q]]]

\* rm(p, {recursive: true}): fails when p is absent; removes p and
\* everything beneath it
fsRm(f, p) ==
    IF p \notin DOMAIN f THEN [ok |-> FALSE, fs |-> f, error |-> "ENOENT"]
    ELSE [ok |-> TRUE, error |-> "",
          fs |-> [q \in {x \in DOMAIN f : x # p /\ ~isUnder(x, p)} |-> f[q]]]

\* size reported by stat for a directory (one block on the usual filesystems)
DirStatSize == 4096

\* stat(p): fails when p is absent or a dangling link
fsStat(f, p) ==
    IF p \notin DOMAIN f \/ f[p].dangling THEN [ok |-> FALSE, size |-> 0]
    ELSE [ok |-> TRUE,
          size |-> IF f[p].isDir THEN DirStatSize ELSE byteSize(f[p].data)]

\* BunFile.exists(): true for a regular file, false for a directory
BunFileExists(f, p) == p \in DOMAIN f /\ ~f[p].isDir /\ ~f[p].dangling

\* the children of directory p
fsChildren(f, p) == {q \in DOMAIN f : q # p /\ fsParent(q) = p}

----------------------------------------------------------------------------
(* Responses *)

\* Response.json(body, {status})
Json(status, body) == [type |-> "json", status |-> status, body |-> body]

\* Response.json({ error: e.message }, { status })
JsonError(status, message) == Json(status, [error |-> message])

\* new Response(file, { headers })
FileResponse(data, name) ==
    [type |-> "bytes", status |-> 200, body |-> [data |-> data, filename |-> name]]

\* an exception that leaves the handler: the handler produced no response,
\* the server answers with its own 500 page
Uncaught(message) ==
    [type |-> "uncaught", status |-> 500, body |-> [thrown |-> message]]

TraversalMessage == "Path traversal detected"

\* what the SQL driver answered while a request was served
NoReply == [ok |-> FALSE, error |-> "not called", rows |-> <<>>, duration |-> 0]

Out(f, r, calls) == [fs |-> f, resp |-> r, sql |-> calls, reply |-> NoReply]

\* the outcome of a handler that was given the driver's answer db
Answered(out, db) ==
    [out EXCEPT !.reply = IF out.sql = <<>> THEN NoReply ELSE db]

----------------------------------------------------------------------------
(* GET /api/files *)

\* rank of a character in the collation used by localeCompare
charRank(c) == CASE c = "." -> 1 [] c = "/" -> 2 [] c = "a" -> 3 [] OTHER -> 4

\* a.localeCompare(b) < 0
RECURSIVE localeLess(_, _)
localeLess(a, b) ==
    IF b = <<>> THEN FALSE
    ELSE IF a = <<>> THEN TRUE
    ELSE IF Head(a) # Head(b) THEN charRank(Head(a)) < charRank(Head(b))
    ELSE localeLess(Tail(a), Tail(b))

\* a comparator that looks at the names only
itemBeforeByName(x, y) == localeLess(x.name, y.name)

\* the comparator of items.sort: directories first, then by name
itemBefore(x, y) ==
    IF x.isDirectory # y.isDirectory THEN x.isDirectory
    ELSE localeLess(x.name, y.name)

\* items.sort(comparator)
RECURSIVE sortItems(_)
sortItems(S) ==
    IF S = {} THEN <<>>
    ELSE LET m == CHOOSE x \in S : \A y \in S \ {x} : itemBefore(x, y)
         IN <<m>> \o sortItems(S \ {m})

\* one element of entries.map reporting size 0 for every directory
listEntryZeroDirs(f, q) ==
    LET st == fsStat(f, q)
    IN IF st.ok
       THEN [name |-> baseName(q), isDirectory |-> f[q].isDir,
             size |-> IF f[q].isDir THEN 0 ELSE st.size, modified |-> "mtime"]
       ELSE [name |-> baseName(q), isDirectory |-> f[q].isDir,
             size |-> 0, modified |-> "now"]

\* one element of entries.map: stat the child, fall back to size 0
listEntry(f, q) ==
    LET st == fsStat(f, q)
    IN IF st.ok
       THEN [name |-> baseName(q), isDirectory |-> f[q].isDir,
             size |-> st.size, modified |-> "mtime"]
       ELSE [name |-> baseName(q), isDirectory |-> f[q].isDir,
             size |-> 0, modified |-> "now"]

\* the handler letting a failed stat of a child fail the whole listing
ListHandlerStrict(f, r) ==
    LET dirPath == IF r.hasPath /\ r.path # <<>> THEN r.path ELSE <<"/">>
        sp == safePath(dirPath)
    IN IF ~sp.ok THEN Out(f, JsonError(400, TraversalMessage), <<>>)
       ELSE IF ~fsExists(f, sp.path)
            THEN Out(f, JsonError(404, "Path not found"), <<>>)
       ELSE IF ~f[sp.path].isDir THEN Out(f, JsonError(400, "ENOTDIR"), <<>>)
       ELSE IF \E q \in fsChildren(f, sp.path) : ~fsStat(f, q).ok
            THEN Out(f, JsonError(400, "ENOENT"), <<>>)
       ELSE Out(f, Json(200, [path |-> dirPath,
                              items |-> sortItems({listEntry(f, q) :
                                                     q \in fsChildren(f, sp.path)})]),
                <<>>)

\* index.ts:597-635
ListHandler(f, r) ==
    LET dirPath == IF r.hasPath /\ r.path # <<>> THEN r.path ELSE <<"/">>
        sp == safePath(dirPath)
    IN IF ~sp.ok THEN Out(f, JsonError(400, TraversalMessage), <<>>)
       ELSE IF ~fsExists(f, sp.path)
            THEN Out(f, JsonError(404, "Path not found"), <<>>)
       ELSE IF ~f[sp.path].isDir THEN Out(f, JsonError(400, "ENOTDIR"), <<>>)
       ELSE Out(f, Json(200, [path |-> dirPath,
                              items |-> sortItems({listEntry(f, q) :
                                                     q \in fsChildren(f, sp.path)})]),
                <<>>)

----------------------------------------------------------------------------
(* POST /api/files *)

EmptyText == [units |-> <<>>, pad |-> 0]

\* the handler refusing a type that is neither "directory" nor "file"
CreateHandlerKnownKinds(f, r) ==
    IF r.body = "malformed" THEN Out(f, Uncaught("SyntaxError"), <<>>)
    ELSE IF r.body = "null" THEN Out(f, Uncaught("TypeError"), <<>>)
    ELSE IF ~r.hasPath THEN Out(f, JsonError(400, "TypeError"), <<>>)
    ELSE LET sp == safePath(r.path)
             fullPath == sp.path
         IN IF ~sp.ok THEN Out(f, JsonError(400, TraversalMessage), <<>>)
            ELSE IF r.kind = "directory"
                 THEN LET made == fsMkdirP(f, fullPath)
                      IN IF made.ok THEN Out(made.fs, Json(200, [ok |-> TRUE]), <<>>)
                         ELSE Out(f, JsonError(400, made.error), <<>>)
            ELSE IF r.kind # "file" THEN Out(f, JsonError(400, "unknown type"), <<>>)
            ELSE LET dir == SubSeq(fullPath, 1, lastIndexOfSlash(fullPath) - 1)
                     made == fsMkdirP(f, dir)
                     text == IF r.hasContent /\ r.content # EmptyText
                             THEN r.content ELSE EmptyText
                     wrote == BunWrite(made.fs, fullPath, encodeText(text))
                 IN IF ~made.ok THEN Out(f, JsonError(400, made.error), <<>>)
                    ELSE IF ~wrote.ok THEN Out(made.fs, JsonError(400, wrote.error), <<>>)
                    ELSE Out(wrote.fs, Json(200, [ok |-> TRUE]), <<>>)

\* the handler leaving a file that is already there as it is
CreateHandlerKeepExisting(f, r) ==
    IF r.body = "malformed" THEN Out(f, Uncaught("SyntaxError"), <<>>)
    ELSE IF r.body = "null" THEN Out(f, Uncaught("TypeError"), <<>>)
    ELSE IF ~r.hasPath THEN Out(f, JsonError(400, "TypeError"), <<>>)
    ELSE LET sp == safePath(r.path)
             fullPath == sp.path
         IN IF ~sp.ok THEN Out(f, JsonError(400, TraversalMessage), <<>>)
            ELSE IF r.kind = "directory"
                 THEN LET made == fsMkdirP(f, fullPath)
                      IN IF made.ok THEN Out(made.fs, Json(200, [ok |-> TRUE]), <<>>)
                         ELSE Out(f, JsonError(400, made.error), <<>>)
            ELSE LET dir == SubSeq(fullPath, 1, lastIndexOfSlash(fullPath) - 1)
                     made == fsMkdirP(f, dir)
                     text == IF r.hasContent /\ r.content # EmptyText
                             THEN r.content ELSE EmptyText
                     wrote == IF fullPath \in DOMAIN f /\ ~f[fullPath].isDir
                              THEN [ok |-> TRUE, fs |-> f, error |-> ""]
                              ELSE BunWrite(made.fs, fullPath, encodeText(text))
                 IN IF ~made.ok THEN Out(f, JsonError(400, made.error), <<>>)
                    ELSE IF ~wrote.ok THEN Out(made.fs, JsonError(400, wrote.error), <<>>)
                    ELSE Out(wrote.fs, Json(200, [ok |-> TRUE]), <<>>)

\* index.ts:637-653.  r.body is "object" when the body parses to a JSON
\* object, "null" when it parses to null, "malformed" when req.json() rejects;
\* both failures happen before the try block.
CreateHandler(f, r) ==
    IF r.body = "malformed" THEN Out(f, Uncaught("SyntaxError"), <<>>)
    ELSE IF r.body = "null" THEN Out(f, Uncaught("TypeError"), <<>>)
    ELSE IF ~r.hasPath THEN Out(f, JsonError(400, "TypeError"), <<>>)
    ELSE LET sp == safePath(r.path)
             fullPath == sp.path
         IN IF ~sp.ok THEN Out(f, JsonError(400, TraversalMessage), <<>>)
            ELSE IF r.kind = "directory"
                 THEN LET made == fsMkdirP(f, fullPath)
                      IN IF made.ok THEN Out(made.fs, Json(200, [ok |-> TRUE]), <<>>)
                         ELSE Out(f, JsonError(400, made.error), <<>>)
            ELSE LET dir == SubSeq(fullPath, 1, lastIndexOfSlash(fullPath) - 1)
                     made == fsMkdirP(f, dir)
                     text == IF r.hasContent /\ r.content # EmptyText
                             THEN r.content ELSE EmptyText
                     wrote == BunWrite(made.fs, fullPath, encodeText(text))
                 IN IF ~made.ok THEN Out(f, JsonError(400, made.error), <<>>)
                    ELSE IF ~wrote.ok THEN Out(made.fs, JsonError(400, wrote.error), <<>>)
                    ELSE Out(wrote.fs, Json(200, [ok |-> TRUE]), <<>>)

----------------------------------------------------------------------------
(* DELETE /api/files *)

\* the handler removing the directory that holds the path
DeleteHandlerWholeDirectory(f, r) ==
    IF ~r.hasPath \/ r.path = <<>> THEN Out(f, JsonError(400, "path required"), <<>>)
    ELSE LET sp == safePath(r.path)
             gone == fsRm(f, fsParent(sp.path))
         IN IF ~sp.ok THEN Out(f, JsonError(400, TraversalMessage), <<>>)
            ELSE IF ~gone.ok THEN Out(f, JsonError(400, gone.error), <<>>)
            ELSE Out(gone.fs, Json(200, [ok |-> TRUE]), <<>>)

\* index.ts:655-668
DeleteHandler(f, r) ==
    IF ~r.hasPath \/ r.path = <<>> THEN Out(f, JsonError(400, "path required"), <<>>)
    ELSE LET sp == safePath(r.path)
             gone == fsRm(f, sp.path)
         IN IF ~sp.ok THEN Out(f, JsonError(400, TraversalMessage), <<>>)
            ELSE IF ~gone.ok THEN Out(f, JsonError(400, gone.error), <<>>)
            ELSE Out(gone.fs, Json(200, [ok |-> TRUE]), <<>>)

----------------------------------------------------------------------------
(* GET /api/files/download *)

\* fullPath.split("/").pop() || "file"
downloadName(fullPath) ==
    LET segs == split(fullPath)
        last == segs[Len(segs)]
    IN IF last = <<>> THEN <<"f", "i", "l", "e">> ELSE last

\* the handler opening the file without asking whether it exists
DownloadHandlerNoExists(f, r) ==
    IF ~r.hasPath \/ r.path = <<>> THEN Out(f, JsonError(400, "path required"), <<>>)
    ELSE LET sp == safePath(r.path)
         IN IF ~sp.ok THEN Out(f, JsonError(400, TraversalMessage), <<>>)
            ELSE IF ~BunFileExists(f, sp.path)
                 THEN Out(f, JsonError(400, "ENOENT"), <<>>)
            ELSE Out(f, FileResponse(f[sp.path].data, downloadName(sp.path)), <<>>)

\* index.ts:672-693
DownloadHandler(f, r) ==
    IF ~r.hasPath \/ r.path = <<>> THEN Out(f, JsonError(400, "path required"), <<>>)
    ELSE LET sp == safePath(r.path)
         IN IF ~sp.ok THEN Out(f, JsonError(400, TraversalMessage), <<>>)
            ELSE IF ~BunFileExists(f, sp.path)
                 THEN Out(f, JsonError(404, "File not found"), <<>>)
            ELSE Out(f, FileResponse(f[sp.path].data, downloadName(sp.path)), <<>>)

----------------------------------------------------------------------------
(* POST /api/files/upload *)

\* the handler writing under the root without consulting the sandbox
UploadHandlerUnsafe(f, r) ==
    IF r.body = "malformed" THEN Out(f, Uncaught("TypeError"), <<>>)
    ELSE IF ~r.hasFile THEN Out(f, JsonError(400, "No file provided"), <<>>)
    ELSE LET dirPath == IF r.hasPath /\ r.path # <<>> THEN r.path ELSE <<"/">>
             target == join(dirPath, r.name)
             sp == safePath(target)
             raw == resolve(VOLUME_ROOT, StripLeadingSlashes(target))
             wrote == BunWrite(f, raw, r.data)
         IN IF ~wrote.ok THEN Out(f, JsonError(400, wrote.error), <<>>)
            ELSE IF ~sp.ok THEN Out(wrote.fs, JsonError(400, TraversalMessage), <<>>)
            ELSE Out(wrote.fs, Json(200, [ok |-> TRUE]), <<>>)

\* index.ts:697-711.  r.body is "malformed" when req.formData() rejects,
\* which happens before the try block.
UploadHandler(f, r) ==
    IF r.body = "malformed" THEN Out(f, Uncaught("TypeError"), <<>>)
    ELSE IF ~r.hasFile THEN Out(f, JsonError(400, "No file provided"), <<>>)
    ELSE LET dirPath == IF r.hasPath /\ r.path # <<>> THEN r.path ELSE <<"/">>
             sp == safePath(join(dirPath, r.name))
             wrote == BunWrite(f, sp.path, r.data)
         IN IF ~sp.ok THEN Out(f, JsonError(400, TraversalMessage), <<>>)
            ELSE IF ~wrote.ok THEN Out(f, JsonError(400, wrote.error), <<>>)
            ELSE Out(wrote.fs, Json(200, [ok |-> TRUE]), <<>>)

----------------------------------------------------------------------------
(* GET /api/files/content *)

\* 1024 * 1024
PreviewLimit == 1048576

\* the handler refusing a file of exactly the limit
ContentHandlerOffByOne(f, r) ==
    IF ~r.hasPath \/ r.path = <<>> THEN Out(f, JsonError(400, "path required"), <<>>)
    ELSE LET sp == safePath(r.path)
             stats == fsStat(f, sp.path)
         IN IF ~sp.ok THEN Out(f, JsonError(400, TraversalMessage), <<>>)
            ELSE IF ~BunFileExists(f, sp.path)
                 THEN Out(f, JsonError(404, "File not found"), <<>>)
            ELSE IF stats.size >= PreviewLimit
                 THEN Out(f, Json(413, [error |-> "File too large to preview",
                                        size |-> stats.size]), <<>>)
            ELSE Out(f, Json(200, [content |-> decodeText(f[sp.path].data),
                                   size |-> stats.size]), <<>>)

\* index.ts:715-736
ContentHandler(f, r) ==
    IF ~r.hasPath \/ r.path = <<>> THEN Out(f, JsonError(400, "path required"), <<>>)
    ELSE LET sp == safePath(r.path)
             stats == fsStat(f, sp.path)
         IN IF ~sp.ok THEN Out(f, JsonError(400, TraversalMessage), <<>>)
            ELSE IF ~BunFileExists(f, sp.path)
                 THEN Out(f, JsonError(404, "File not found"), <<>>)
            ELSE IF stats.size > PreviewLimit
                 THEN Out(f, Json(413, [error |-> "File too large to preview",
                                        size |-> stats.size]), <<>>)
            ELSE Out(f, Json(200, [content |-> decodeText(f[sp.path].data),
                                   size |-> stats.size]), <<>>)

----------------------------------------------------------------------------
(* Query passthrough *)

isSpace(c) == c \in {" ", "\t", "\n"}

RECURSIVE trimStart(_)
trimStart(s) == IF s # <<>> /\ isSpace(Head(s)) THEN trimStart(Tail(s)) ELSE s

RECURSIVE trimEnd(_)
trimEnd(s) ==
    IF s # <<>> /\ isSpace(s[Len(s)]) THEN trimEnd(SubSeq(s, 1, Len(s) - 1)) ELSE s

\* String.prototype.trim
trim(s) == trimEnd(trimStart(s))

NotConfigured == "DATABASE_URL not configured"

\* the statements the handlers send themselves, each as a one-token text
StatusSql == <<"SELECT version(), current_database(), current_user">>
TablesSql == <<"SELECT t.tablename AS name, COALESCE(s.n_live_tup, 0) AS row_count ...">>

\* Object.keys(row): a row is a sequence of <<column, value>> pairs
keys(row) == [i \in 1..Len(row) |-> row[i][1]]

\* the handler answering a failed round-trip with an error status
StatusHandlerErrorStatus(f, r, db) ==
    IF ~hasPg THEN Out(f, JsonError(503, NotConfigured), <<>>)
    ELSE IF db.ok /\ Len(db.rows) = 0
         THEN Out(f, JsonError(500, "TypeError"), <<StatusSql>>)
    ELSE IF db.ok
         THEN Out(f, Json(200, [connected |-> TRUE, version |-> "version",
                                database |-> "database", user |-> "user"]),
                  <<StatusSql>>)
    ELSE Out(f, JsonError(500, db.error), <<StatusSql>>)

\* index.ts:740-755.  db is what the driver answers, should it be called;
\* destructuring an empty result leaves row undefined, and row.version then
\* throws inside the try block.
StatusHandler(f, r, db) ==
    IF ~hasPg
    THEN Out(f, Json(200, [connected |-> FALSE, error |-> NotConfigured]), <<>>)
    ELSE IF db.ok /\ Len(db.rows) = 0
         THEN Out(f, Json(200, [connected |-> FALSE, error |-> "TypeError"]),
                  <<StatusSql>>)
    ELSE IF db.ok
         THEN Out(f, Json(200, [connected |-> TRUE, version |-> "version",
                                database |-> "database", user |-> "user"]),
                  <<StatusSql>>)
    ELSE Out(f, Json(200, [connected |-> FALSE, error |-> db.error]), <<StatusSql>>)

\* index.ts:759-777
TablesHandler(f, r, db) ==
    IF ~hasPg THEN Out(f, JsonError(503, NotConfigured), <<>>)
    ELSE IF db.ok THEN Out(f, Json(200, [tables |-> db.rows]), <<TablesSql>>)
    ELSE Out(f, JsonError(500, db.error), <<TablesSql>>)

\* the handler reading the body before it looks at the configuration
QueryHandlerBodyFirst(f, r, db) ==
    IF r.body # "object" THEN Out(f, Uncaught("SyntaxError"), <<>>)
    ELSE IF ~r.hasQuery \/ trim(r.query) = <<>>
         THEN Out(f, JsonError(400, "query is required"), <<>>)
    ELSE IF ~hasPg THEN Out(f, JsonError(503, NotConfigured), <<>>)
    ELSE IF db.ok
         THEN Out(f, Json(200, [columns |-> IF Len(db.rows) > 0 THEN keys(db.rows[1])
                                            ELSE <<>>,
                                rows |-> db.rows, rowCount |-> Len(db.rows),
                                duration |-> db.duration]),
                  <<trim(r.query)>>)
    ELSE Out(f, JsonError(400, db.error), <<trim(r.query)>>)

\* the handler cutting the query at its first whitespace
QueryHandlerFirstWord(f, r, db) ==
    LET RECURSIVE word(_)
        word(s) == IF s = <<>> \/ isSpace(Head(s)) THEN <<>>
                   ELSE <<Head(s)>> \o word(Tail(s))
        query == word(trim(r.query))
    IN IF ~hasPg THEN Out(f, JsonError(503, NotConfigured), <<>>)
       ELSE IF r.body # "object" THEN Out(f, Uncaught("SyntaxError"), <<>>)
       ELSE IF ~r.hasQuery \/ query = <<>>
            THEN Out(f, JsonError(400, "query is required"), <<>>)
       ELSE IF db.ok
            THEN Out(f, Json(200, [columns |-> IF Len(db.rows) > 0
                                               THEN keys(db.rows[1]) ELSE <<>>,
                                   rows |-> db.rows, rowCount |-> Len(db.rows),
                                   duration |-> db.duration]),
                     <<query>>)
       ELSE Out(f, JsonError(400, db.error), <<query>>)

\* the handler reporting the number of columns as the row count
QueryHandlerCountsColumns(f, r, db) ==
    IF ~hasPg THEN Out(f, JsonError(503, NotConfigured), <<>>)
    ELSE IF r.body = "malformed" THEN Out(f, Uncaught("SyntaxError"), <<>>)
    ELSE IF r.body = "null" THEN Out(f, Uncaught("TypeError"), <<>>)
    ELSE LET query == trim(r.query)
             columns == IF Len(db.rows) > 0 THEN keys(db.rows[1]) ELSE <<>>
         IN IF ~r.hasQuery \/ query = <<>>
            THEN Out(f, JsonError(400, "query is required"), <<>>)
            ELSE IF db.ok
                 THEN Out(f, Json(200, [columns |-> columns,
                                        rows |-> db.rows, rowCount |-> Len(columns),
                                        duration |-> db.duration]),
                          <<query>>)
            ELSE Out(f, JsonError(400, db.error), <<query>>)

\* index.ts:781-804.  r.body is "object" when the body parses to a JSON
\* object, "null" when it parses to null, "malformed" when req.json() rejects;
\* both failures happen before the try block.
QueryHandler(f, r, db) ==
    IF ~hasPg THEN Out(f, JsonError(503, NotConfigured), <<>>)
    ELSE IF r.body = "malformed" THEN Out(f, Uncaught("SyntaxError"), <<>>)
    ELSE IF r.body = "null" THEN Out(f, Uncaught("TypeError"), <<>>)
    ELSE LET query == trim(r.query)
         IN IF ~r.hasQuery \/ query = <<>>
            THEN Out(f, JsonError(400, "query is required"), <<>>)
            ELSE IF db.ok
                 THEN Out(f, Json(200, [columns |-> IF Len(db.rows) > 0
                                                    THEN keys(db.rows[1]) ELSE <<>>,
                                        rows |-> db.rows, rowCount |-> Len(db.rows),
                                        duration |-> db.duration]),
                          <<query>>)
            ELSE Out(f, JsonError(400, db.error), <<query>>)

----------------------------------------------------------------------------
(* Inputs *)

\* logical paths, one character per element
Lit_Slash == <<"/">>
Lit_b == <<"b">>
Lit_Up == <<".", ".">>
Lit_Up_ab == <<".", ".", "/", "a", "b">>
Lit_SlashUp_ab == <<"/", ".", ".", "/", "a", "b">>
Lit_ab == <<"a", "b">>

\* a query parameter or body field that may be missing
Optional(paths) ==
    {[hasPath |-> TRUE, path |-> p] : p \in paths}
        \cup {[hasPath |-> FALSE, path |-> <<>>]}

Text(units, pad) == [units |-> units, pad |-> pad]
Data(bytes, pad) == [bytes |-> bytes, pad |-> pad]

\* longest query text enumerated
MaxQueryLen == 3
QueryChars == {" ", "s"}
Queries == UNION { [1..k -> QueryChars] : k \in 0..MaxQueryLen }

Row1 == << <<"ok", 1>> >>
Row2 == << <<"ok", 2>> >>
RowSets == { <<>>, <<Row1>>, <<Row1, Row2>> }

\* measured wall-clock durations, in milliseconds
Durations == {0, 12}

\* what the SQL driver can answer
DbOutcomes ==
    {[ok |-> FALSE, error |-> "db error", rows |-> <<>>, duration |-> 0]}
        \cup {[ok |-> TRUE, error |-> "", rows |-> rs, duration |-> d] :
                 rs \in RowSets, d \in Durations}

\* the inputs of the main specification
MainInputs ==
    [paths |-> {Lit_Slash, Lit_b, Lit_Up, Lit_Up_ab},
     kinds |-> {"directory", "file", "folder"},
     texts |-> {Text(<<233>>, 0), Text(<<>>, PreviewLimit + 1)},
     names |-> {Lit_b},
     datas |-> {Data(<<97, 98, 99>>, 0), Data(<<255>>, PreviewLimit - 1)},
     depth |-> 0]

----------------------------------------------------------------------------
(* State *)

NoRequest == [op |-> "none"]

\* no handler is suspended.  A suspended handler keeps its request, the
\* await it stands at (pc), its locals stats.size and entries, and in the end
\* its response; `raced` tells whether the filesystem changed after the
\* handler began
NoFlight ==
    [pc |-> "idle", req |-> [op |-> "none", hasPath |-> FALSE, path |-> <<>>],
     size |-> 0, entries |-> {},
     resp |-> [type |-> "none", status |-> 0, body |-> [none |-> TRUE]],
     raced |-> FALSE]

\* no component is mounted
NoUi == [view |-> "none"]
NoResponse == [type |-> "none", status |-> 0, body |-> [none |-> TRUE]]
NotCalled == [done |-> FALSE, ok |-> FALSE, path |-> <<>>]

\* index.ts:817: mkdir(VOLUME_ROOT, {recursive: true}) on an empty volume
startupFs(root) == [q \in fsChain(root) |-> DirNode]

InitCommon ==
    /\ VOLUME_ROOT \in Roots
    /\ hasPg \in BOOLEAN
    /\ fs = startupFs(VOLUME_ROOT)
    /\ req = NoRequest
    /\ resp = NoResponse
    /\ sqlCalls = <<>>
    /\ added = {}
    /\ history = <<>>
    /\ dbReply = NoReply
    /\ flight = NoFlight
    /\ ui = NoUi

Init ==
    /\ InitCommon
    /\ arg = <<>>
    /\ resolved = NotCalled

\* the last n elements of s
lastN(s, n) == IF Len(s) =< n THEN s ELSE SubSeq(s, Len(s) - n + 1, Len(s))

\* the server answers request r with out; the log keeps the `depth` most
\* recent earlier exchanges
Serve(r, out, depth) ==
    /\ req' = r
    /\ resp' = out.resp
    /\ fs' = out.fs
    /\ sqlCalls' = out.sql
    /\ dbReply' = out.reply
    /\ added' = DOMAIN out.fs \ DOMAIN fs
    /\ history' = IF req = NoRequest THEN <<>>
                  ELSE lastN(Append(history, [req |-> req, resp |-> resp,
                                              added |-> added]), depth)
    /\ flight' = IF flight.pc = "idle" THEN flight
                 ELSE [flight EXCEPT !.raced = @ \/ out.fs # fs]
    /\ UNCHANGED <<VOLUME_ROOT, hasPg, ui, arg, resolved>>

List(I) ==
    \E o \in Optional(I.paths) :
        LET r == [op |-> "List", hasPath |-> o.hasPath, path |-> o.path]
        IN Serve(r, ListHandler(fs, r), I.depth)

CreateBodies(I) ==
    {[op |-> "Create", body |-> "object", hasPath |-> o.hasPath, path |-> o.path,
      kind |-> k, hasContent |-> FALSE, content |-> EmptyText] :
        o \in Optional(I.paths), k \in I.kinds}
    \cup {[op |-> "Create", body |-> "object", hasPath |-> TRUE, path |-> p,
           kind |-> k, hasContent |-> TRUE, content |-> c] :
        p \in I.paths, k \in I.kinds \ {"directory"}, c \in I.texts \cup {EmptyText}}
    \cup {[op |-> "Create", body |-> b, hasPath |-> FALSE, path |-> <<>>,
           kind |-> "file", hasContent |-> FALSE, content |-> EmptyText] :
        b \in {"malformed", "null"}}

Create(I) ==
    \E r \in CreateBodies(I) : Serve(r, CreateHandler(fs, r), I.depth)

Delete(I) ==
    \E o \in Optional(I.paths) :
        LET r == [op |-> "Delete", hasPath |-> o.hasPath, path |-> o.path]
        IN Serve(r, DeleteHandler(fs, r), I.depth)

Download(I) ==
    \E o \in Optional(I.paths) :
        LET r == [op |-> "Download", hasPath |-> o.hasPath, path |-> o.path]
        IN Serve(r, DownloadHandler(fs, r), I.depth)

UploadForms(I) ==
    {[op |-> "Upload", body |-> "form", hasPath |-> o.hasPath, path |-> o.path,
      hasFile |-> TRUE, name |-> n, data |-> d] :
        o \in Optional(I.paths), n \in I.names, d \in I.datas}
    \cup {[op |-> "Upload", body |-> b, hasPath |-> FALSE, path |-> <<>>,
           hasFile |-> FALSE, name |-> <<>>, data |-> Data(<<>>, 0)] :
        b \in {"form", "malformed"}}

Upload(I) ==
    \E r \in UploadForms(I) : Serve(r, UploadHandler(fs, r), I.depth)

ReadContent(I) ==
    \E o \in Optional(I.paths) :
        LET r == [op |-> "ReadContent", hasPath |-> o.hasPath, path |-> o.path]
        IN Serve(r, ContentHandler(fs, r), I.depth)

\* the answers the driver can give to a request: without a connection the
\* driver is never asked, and one answer stands for all
DriverAnswers ==
    IF hasPg THEN DbOutcomes ELSE {CHOOSE d \in DbOutcomes : ~d.ok}

Status(I) ==
    \E db \in DriverAnswers :
        LET r == [op |-> "Status"]
        IN Serve(r, Answered(StatusHandler(fs, r, db), db), I.depth)

ListTables(I) ==
    \E db \in DriverAnswers :
        LET r == [op |-> "ListTables"]
        IN Serve(r, Answered(TablesHandler(fs, r, db), db), I.depth)

QueryBodies ==
    {[op |-> "RunQuery", body |-> "object", hasQuery |-> TRUE, query |-> q] :
        q \in Queries}
    \cup {[op |-> "RunQuery", body |-> b, hasQuery |-> FALSE, query |-> <<>>] :
        b \in {"object", "malformed", "null"}}

RunQuery(I) ==
    \E r \in QueryBodies, db \in DriverAnswers :
        Serve(r, Answered(QueryHandler(fs, r, db), db), I.depth)

Next ==
    \/ List(MainInputs)
    \/ Create(MainInputs)
    \/ Delete(MainInputs)
    \/ Download(MainInputs)
    \/ Upload(MainInputs)
    \/ ReadContent(MainInputs)
    \/ Status(MainInputs)
    \/ ListTables(MainInputs)
    \/ RunQuery(MainInputs)

Spec == Init /\ [][Next]_vars

----------------------------------------------------------------------------
(* The sandbox as a pure function: SpecPath applies safePath to every       *)
(* string of at most MaxLen characters, under every root                    *)

InitPath ==
    /\ InitCommon
    /\ arg \in Str(MaxLen)
    /\ resolved = NotCalled

CallSafePath ==
    /\ ~resolved.done
    /\ resolved' = [done |-> TRUE, ok |-> safePath(arg).ok, path |-> safePath(arg).path]
    /\ UNCHANGED <<VOLUME_ROOT, hasPg, fs, req, resp, sqlCalls, added, history,
                   dbReply, flight, ui, arg>>

NextPath == CallSafePath

SpecPath == InitPath /\ [][NextPath]_vars

----------------------------------------------------------------------------
(* Sequences of file requests: SpecSeq serves the six file operations on a  *)
(* few paths and keeps the previous exchange in the log                     *)

LONE_SURROGATE == 55296

SeqInputs ==
    [paths |-> {Lit_ab, Lit_SlashUp_ab},
     kinds |-> {"directory", "file"},
     texts |-> {Text(<<233>>, 0), Text(<<LONE_SURROGATE>>, 0), Text(<<BOM, 97>>, 0)},
     names |-> {Lit_b},
     datas |-> {Data(<<97, 98, 99>>, 0), Data(<<255>>, 0)},
     depth |-> 1]

InitSeq ==
    /\ InitCommon
    /\ ~hasPg
    /\ arg = <<>>
    /\ resolved = NotCalled

NextSeq ==
    \/ List(SeqInputs)
    \/ Create(SeqInputs)
    \/ Delete(SeqInputs)
    \/ Download(SeqInputs)
    \/ Upload(SeqInputs)
    \/ ReadContent(SeqInputs)

SpecSeq == InitSeq /\ [][NextSeq]_vars

----------------------------------------------------------------------------
(* Listings of a volume with content: the volume is persistent, so the      *)
(* server can start on a root that already holds directories, files and      *)
(* links.  SpecList starts from every such root over a few names and serves  *)
(* the three read-only file operations.                                      *)

\* most entries the root holds at startup
MaxEntries == 3

NamePool == << <<".", "a">>, <<"a">>, <<"b">>, <<"a", "b">> >>
ListNames ==
    {NamePool[i] : i \in 1..(IF MaxEntries < Len(NamePool) THEN MaxEntries
                              ELSE Len(NamePool))}

EntryKinds == {"absent", "directory", "file", "empty", "link"}

entryNode(kind) ==
    CASE kind = "directory" -> DirNode
      [] kind = "file" -> FileNode(Data(<<97, 98, 99>>, 0))
      [] kind = "empty" -> FileNode(Data(<<>>, 0))
      [] OTHER -> LinkNode

\* the root and, directly in it, the entries that `kinds` does not leave out
volumeFs(root, kinds) ==
    LET present == {n \in DOMAIN kinds : kinds[n] # "absent"}
        pathOf(n) == root \o <<"/">> \o n
        nameOf(q) == CHOOSE n \in present : pathOf(n) = q
        base == startupFs(root)
    IN [q \in DOMAIN base \cup {pathOf(n) : n \in present} |->
           IF q \in DOMAIN base THEN base[q] ELSE entryNode(kinds[nameOf(q)])]

ListInputs ==
    [paths |-> {Lit_Slash, Lit_b},
     kinds |-> {"directory", "file"},
     texts |-> {Text(<<233>>, 0)},
     names |-> {Lit_b},
     datas |-> {Data(<<97, 98, 99>>, 0)},
     depth |-> 0]

InitList ==
    /\ VOLUME_ROOT \in Roots
    /\ hasPg = FALSE
    /\ \E kinds \in [ListNames -> EntryKinds] : fs = volumeFs(VOLUME_ROOT, kinds)
    /\ req = NoRequest
    /\ resp = NoResponse
    /\ sqlCalls = <<>>
    /\ dbReply = NoReply
    /\ added = {}
    /\ history = <<>>
    /\ flight = NoFlight
    /\ ui = NoUi
    /\ arg = <<>>
    /\ resolved = NotCalled

NextList ==
    \/ List(ListInputs)
    \/ Download(ListInputs)
    \/ ReadContent(ListInputs)

SpecList == InitList /\ [][NextList]_vars

----------------------------------------------------------------------------
(* Requests that overlap: every await of a handler is a point where the     *)
(* server runs other requests.  SpecRace takes GET /api/files and            *)
(* GET /api/files/content one await at a time, while Create, Delete and      *)
(* Upload requests are served between the steps.                             *)

Finished(fl, response) == [fl EXCEPT !.pc = "done", !.resp = response]

\* index.ts:717-726: from the start of the handler to the answer of
\* file.exists()
ContentBegin(f, r) ==
    LET fl == [NoFlight EXCEPT !.req = r]
    IN IF ~r.hasPath \/ r.path = <<>>
       THEN Finished(fl, JsonError(400, "path required"))
       ELSE IF ~safePath(r.path).ok THEN Finished(fl, JsonError(400, TraversalMessage))
       ELSE IF ~BunFileExists(f, safePath(r.path).path)
            THEN Finished(fl, JsonError(404, "File not found"))
       ELSE [fl EXCEPT !.pc = "stat"]

\* the stat step without the size check
ContentStatNoLimit(f, fl) ==
    LET stats == fsStat(f, safePath(fl.req.path).path)
    IN IF ~stats.ok THEN Finished(fl, JsonError(400, "ENOENT"))
       ELSE [fl EXCEPT !.pc = "text", !.size = stats.size]

\* index.ts:727-730: await stat(fullPath) and the size check
ContentStat(f, fl) ==
    LET stats == fsStat(f, safePath(fl.req.path).path)
    IN IF ~stats.ok THEN Finished(fl, JsonError(400, "ENOENT"))
       ELSE IF stats.size > PreviewLimit
            THEN Finished(fl, Json(413, [error |-> "File too large to preview",
                                         size |-> stats.size]))
       ELSE [fl EXCEPT !.pc = "text", !.size = stats.size]

\* index.ts:731-732: await file.text() and the response
ContentText(f, fl) ==
    LET fullPath == safePath(fl.req.path).path
    IN IF fullPath \notin DOMAIN f \/ f[fullPath].dangling
       THEN Finished(fl, JsonError(400, "ENOENT"))
       ELSE IF f[fullPath].isDir THEN Finished(fl, JsonError(400, "EISDIR"))
       ELSE Finished(fl, Json(200, [content |-> decodeText(f[fullPath].data),
                                    size |-> fl.size]))

\* url.searchParams.get("path") || "/"
dirPathOf(r) == IF r.hasPath /\ r.path # <<>> THEN r.path ELSE <<"/">>

\* the handler going to readdir without the existence check
ListBeginNoExists(f, r) ==
    LET fl == [NoFlight EXCEPT !.req = r]
        sp == safePath(dirPathOf(r))
    IN IF ~sp.ok THEN Finished(fl, JsonError(400, TraversalMessage))
       ELSE [fl EXCEPT !.pc = "readdir"]

\* index.ts:599-604: from the start of the handler to the answer of exists()
ListBegin(f, r) ==
    LET fl == [NoFlight EXCEPT !.req = r]
        sp == safePath(dirPathOf(r))
    IN IF ~sp.ok THEN Finished(fl, JsonError(400, TraversalMessage))
       ELSE IF ~fsExists(f, sp.path) THEN Finished(fl, JsonError(404, "Path not found"))
       ELSE [fl EXCEPT !.pc = "readdir"]

\* index.ts:606: await readdir(fullPath, { withFileTypes: true })
ListReaddir(f, fl) ==
    LET fullPath == safePath(dirPathOf(fl.req)).path
    IN IF ~fsExists(f, fullPath) THEN Finished(fl, JsonError(400, "ENOENT"))
       ELSE IF ~f[fullPath].isDir THEN Finished(fl, JsonError(400, "ENOTDIR"))
       ELSE [fl EXCEPT !.pc = "stats",
                       !.entries = {[path |-> q, isDirectory |-> f[q].isDir] :
                                       q \in fsChildren(f, fullPath)}]

\* one element of entries.map, for a directory entry read earlier
statEntry(f, e) ==
    LET st == fsStat(f, e.path)
    IN [name |-> baseName(e.path), isDirectory |-> e.isDirectory,
        size |-> IF st.ok THEN st.size ELSE 0,
        modified |-> IF st.ok THEN "mtime" ELSE "now"]

\* index.ts:607-632: await Promise.all(entries.map(...)), the sort and the
\* response; the stats of the children are taken at one moment
ListStats(f, fl) ==
    Finished(fl, Json(200, [path |-> dirPathOf(fl.req),
                            items |-> sortItems({statEntry(f, e) : e \in fl.entries})]))

\* body.type of a body without a type field
MissingKind == "undefined"

RaceInputs ==
    [paths |-> {Lit_b},
     kinds |-> {"directory", "file", "folder", MissingKind},
     texts |-> {Text(<<97>>, 0), Text(<<>>, PreviewLimit + 1)},
     names |-> {Lit_b},
     datas |-> {Data(<<97, 98, 99>>, 0)},
     depth |-> 0]

InitRace ==
    /\ InitCommon
    /\ hasPg = FALSE
    /\ arg = <<>>
    /\ resolved = NotCalled

\* a step of the suspended handler: only flight changes
Step(fl) ==
    /\ flight' = fl
    /\ UNCHANGED <<VOLUME_ROOT, hasPg, fs, req, resp, sqlCalls, dbReply, added,
                   history, ui, arg, resolved>>

BeginRead(I) ==
    /\ flight.pc \in {"idle", "done"}
    /\ \E o \in Optional(I.paths) :
          Step(ContentBegin(fs, [op |-> "ReadContent", hasPath |-> o.hasPath,
                                 path |-> o.path]))

StatRead ==
    /\ flight.req.op = "ReadContent" /\ flight.pc = "stat"
    /\ Step(ContentStat(fs, flight))

TextRead ==
    /\ flight.req.op = "ReadContent" /\ flight.pc = "text"
    /\ Step(ContentText(fs, flight))

BeginList(I) ==
    /\ flight.pc \in {"idle", "done"}
    /\ \E o \in Optional(I.paths) :
          Step(ListBegin(fs, [op |-> "List", hasPath |-> o.hasPath, path |-> o.path]))

ReaddirList ==
    /\ flight.req.op = "List" /\ flight.pc = "readdir"
    /\ Step(ListReaddir(fs, flight))

StatsList ==
    /\ flight.req.op = "List" /\ flight.pc = "stats"
    /\ Step(ListStats(fs, flight))

NextRace ==
    \/ BeginRead(RaceInputs)
    \/ StatRead
    \/ TextRead
    \/ BeginList(RaceInputs)
    \/ ReaddirList
    \/ StatsList
    \/ Create(RaceInputs)
    \/ Delete(RaceInputs)
    \/ Upload(RaceInputs)

SpecRace == InitRace /\ [][NextRace]_vars

----------------------------------------------------------------------------
(* The query console (App.tsx, PostgresExplorer): SpecConsole follows the   *)
(* component's state through overlapping runQuery calls.  The console is    *)
(* rendered once the status request reported a connection.                  *)

\* most runQuery calls started
MaxQueries == 3

Null == [isNull |-> TRUE, value |-> <<>>]
Some(v) == [isNull |-> FALSE, value |-> v]

\* the text of a quick-query or table button
QuickQuery == <<"s">>

\* the answers of the driver the console is followed through
ConsoleOutcomes ==
    {d \in DbOutcomes : ~d.ok \/ d.rows = <<Row1>>}

\* App.tsx:43-48: useState initial values; inflight holds the fetches of
\* runQuery that have not settled, issued counts the calls of runQuery
ConsoleMounted ==
    [view |-> "console", result |-> Null, queryError |-> Null, running |-> FALSE,
     inflight |-> {}, issued |-> 0]

\* App.tsx:75-83: runQuery up to its await fetch(...)
runQuery(u, sql) ==
    [u EXCEPT !.running = TRUE, !.queryError = Null, !.result = Null,
              !.inflight = @ \cup {[id |-> u.issued + 1, query |-> sql]},
              !.issued = @ + 1]

\* App.tsx:84-94: runQuery from the resolved fetch to the end; data is the
\* response of POST /api/pg/query
runQuerySettled(u, call, data) ==
    IF "error" \in DOMAIN data.body
    THEN [u EXCEPT !.queryError = Some(data.body.error),
                   !.running = FALSE, !.inflight = @ \ {call}]
    ELSE [u EXCEPT !.result = Some(data.body),
                   !.running = FALSE, !.inflight = @ \ {call}]

\* App.tsx:91-94: the fetch rejected
runQueryFailed(u, call) ==
    [u EXCEPT !.queryError = Some("Failed to fetch"),
              !.running = FALSE, !.inflight = @ \ {call}]

InitConsole ==
    /\ VOLUME_ROOT \in Roots
    /\ hasPg = TRUE
    /\ fs = startupFs(VOLUME_ROOT)
    /\ req = NoRequest
    /\ resp = NoResponse
    /\ sqlCalls = <<>>
    /\ dbReply = NoReply
    /\ added = {}
    /\ history = <<>>
    /\ flight = NoFlight
    /\ ui = ConsoleMounted
    /\ arg = <<>>
    /\ resolved = NotCalled

\* a change of the component's state
Render(u) ==
    /\ ui' = u
    /\ UNCHANGED <<VOLUME_ROOT, hasPg, fs, req, resp, sqlCalls, dbReply, added,
                   history, flight, arg, resolved>>

\* App.tsx:98-100, 195-197: the Run Query button, disabled while running
HandleSubmit ==
    /\ ui.issued < MaxQueries
    /\ ~ui.running
    /\ Render(runQuery(ui, QuickQuery))

\* App.tsx:102-106, 164-176: a table button or a quick-query button
HandleQuickQuery ==
    /\ ui.issued < MaxQueries
    /\ Render(runQuery(ui, QuickQuery))

\* the server answers one of the pending fetches
QuerySettles ==
    \E call \in ui.inflight, db \in ConsoleOutcomes :
        LET r == [op |-> "RunQuery", body |-> "object", hasQuery |-> TRUE,
                  query |-> call.query]
        IN Render(runQuerySettled(ui, call, QueryHandler(fs, r, db).resp))

\* one of the pending fetches rejects
QueryFails ==
    \E call \in ui.inflight : Render(runQueryFailed(ui, call))

NextConsole ==
    \/ HandleSubmit
    \/ HandleQuickQuery
    \/ QuerySettles
    \/ QueryFails

SpecConsole == InitConsole /\ [][NextConsole]_vars

----------------------------------------------------------------------------
(* The file browser (App.tsx, App): SpecBrowser follows currentPath and     *)
(* items through overlapping fetchFiles calls on a volume that holds the    *)
(* file "a" and the directory "b".                                          *)

\* most fetchFiles calls started
MaxFetches == 3

Lit_Slash_b == <<"/", "b">>

\* the paths of the breadcrumbs
BrowserPaths == {Lit_Slash, Lit_Slash_b}

browserFs(root) ==
    volumeFs(root, [n \in ListNames |->
                       IF n = <<"b">> THEN "directory"
                       ELSE IF n = <<"a">> THEN "file" ELSE "absent"])

\* App.tsx:258-261: useState initial values; calls lists the fetchFiles
\* calls made so far, each with its path and how it ended
BrowserMounted ==
    [view |-> "browser", currentPath |-> Lit_Slash, items |-> <<>>,
     loading |-> TRUE, error |-> Null, calls |-> <<>>]

\* App.tsx:269-273: fetchFiles up to its await fetch(...)
fetchFiles(u, path) ==
    [u EXCEPT !.loading = TRUE, !.error = Null,
              !.calls = Append(@, [path |-> path, state |-> "pending",
                                   items |-> <<>>])]

\* App.tsx:274-282: fetchFiles from the resolved fetch to the end; data is
\* the response of GET /api/files to call i
fetchFilesSettled(u, i, data) ==
    IF "error" \in DOMAIN data.body
    THEN [u EXCEPT !.error = Some(data.body.error), !.loading = FALSE,
                   !.calls[i].state = "error"]
    ELSE [u EXCEPT !.items = data.body.items, !.currentPath = u.calls[i].path,
                   !.loading = FALSE,
                   !.calls[i].state = "ok", !.calls[i].items = data.body.items]

\* App.tsx:278-282: the fetch of call i rejected
fetchFilesFailed(u, i) ==
    [u EXCEPT !.error = Some("Failed to fetch"), !.loading = FALSE,
              !.calls[i].state = "error"]

\* App.tsx:285-287: the effect that runs fetchFiles("/") on mount
InitBrowser ==
    /\ VOLUME_ROOT \in Roots
    /\ hasPg = FALSE
    /\ fs = browserFs(VOLUME_ROOT)
    /\ req = NoRequest
    /\ resp = NoResponse
    /\ sqlCalls = <<>>
    /\ dbReply = NoReply
    /\ added = {}
    /\ history = <<>>
    /\ flight = NoFlight
    /\ ui = fetchFiles(BrowserMounted, Lit_Slash)
    /\ arg = <<>>
    /\ resolved = NotCalled

pendingCalls(u) == {i \in 1..Len(u.calls) : u.calls[i].state = "pending"}

\* App.tsx:294-296, 411, 454: a breadcrumb or the refresh button
NavigateTo ==
    /\ Len(ui.calls) < MaxFetches
    /\ \E path \in BrowserPaths : Render(fetchFiles(ui, path))

\* App.tsx:289-292, 509, 535: a directory of the listing, shown when no
\* fetch set loading
Navigate ==
    /\ Len(ui.calls) < MaxFetches
    /\ ~ui.loading
    /\ \E k \in 1..Len(ui.items) :
          /\ ui.items[k].isDirectory
          /\ Render(fetchFiles(ui, IF ui.currentPath = Lit_Slash
                                    THEN <<"/">> \o ui.items[k].name
                                    ELSE ui.currentPath \o <<"/">> \o ui.items[k].name))

\* the server answers one of the pending fetches
ListSettles ==
    \E i \in pendingCalls(ui) :
        LET r == [op |-> "List", hasPath |-> TRUE, path |-> ui.calls[i].path]
        IN Render(fetchFilesSettled(ui, i, ListHandler(fs, r).resp))

\* one of the pending fetches rejects
ListFails ==
    \E i \in pendingCalls(ui) : Render(fetchFilesFailed(ui, i))

NextBrowser ==
    \/ NavigateTo
    \/ Navigate
    \/ ListSettles
    \/ ListFails

SpecBrowser == InitBrowser /\ [][NextBrowser]_vars

----------------------------------------------------------------------------
(* Claims *)

FileOps == {"List", "Create", "Delete", "Download", "Upload", "ReadContent"}

\* p lies in the sandbox: it is the root or the root followed by "/" and more
insideRoot(p) == p = VOLUME_ROOT \/ startsWith(p, VOLUME_ROOT \o <<"/">>)

onlySlashes(s) == \A i \in 1..Len(s) : s[i] = "/"

\* C1: whatever logical path safePath is given, it either fails with
\* PathEscape or returns the root or a path below the root (the root followed
\* by a separator and further segments).
C1_NeverOutsideRoot ==
    (resolved.done /\ resolved.ok) => insideRoot(resolved.path)

\* the logical path a file request hands to the sandbox, when it gets there
sandboxArg(r) ==
    CASE r.op = "List" ->
            [reached |-> TRUE,
             path |-> IF r.hasPath /\ r.path # <<>> THEN r.path ELSE <<"/">>]
      [] r.op = "Create" ->
            [reached |-> r.body = "object" /\ r.hasPath, path |-> r.path]
      [] r.op \in {"Delete", "Download", "ReadContent"} ->
            [reached |-> r.hasPath /\ r.path # <<>>, path |-> r.path]
      [] r.op = "Upload" ->
            [reached |-> r.body = "form" /\ r.hasFile,
             path |-> join(IF r.hasPath /\ r.path # <<>> THEN r.path ELSE <<"/">>,
                           r.name)]
      [] OTHER -> [reached |-> FALSE, path |-> <<>>]

\* the request r is a file request whose path the sandbox rejects
escapes(r) ==
    /\ r.op \in FileOps
    /\ sandboxArg(r).reached
    /\ ~safePath(sandboxArg(r).path).ok

isErrorEnvelope(r) == r.type = "json" /\ "error" \in DOMAIN r.body

\* C2: a file request whose logical path fails the sandbox with PathEscape is
\* answered with a 400 JSON error envelope, and the step leaves the
\* filesystem tree as it was.
C2_EscapeIsClientError ==
    [][escapes(req') =>
          /\ isErrorEnvelope(resp')
          /\ resp'.status = 400
          /\ fs' = fs]_vars

C2_Witness ==
    /\ req.op = "Upload"
    /\ escapes(req)
    /\ resp = JsonError(400, TraversalMessage)

\* C3: safePath applied to the empty string, to "/" or to any string made
\* only of "/" characters succeeds and returns exactly the root.
C3_SlashesResolveToRoot ==
    (resolved.done /\ onlySlashes(arg)) =>
        (resolved.ok /\ resolved.path = VOLUME_ROOT)

C3_Witness ==
    /\ resolved.done
    /\ arg = <<"/", "/", "/", "/">>
    /\ resolved.path = VOLUME_ROOT

\* C4: every failure while a request is handled is caught by the handler and
\* answered with a JSON error envelope carrying a 4xx/5xx status; no
\* exception leaves a handler.
C4_NoFailureEscapes ==
    /\ resp.type # "uncaught"
    /\ resp.status >= 400 => isErrorEnvelope(resp)

\* C5 (as claimed): every query text accepted for execution reaches the SQL
\* driver character for character.
C5_ExactText ==
    (req.op = "RunQuery" /\ sqlCalls # <<>>) => sqlCalls = <<req.query>>

\* sent is q without its leading and trailing whitespace
isTrimOf(sent, q) ==
    /\ sent # <<>>
    /\ ~isSpace(sent[1])
    /\ ~isSpace(sent[Len(sent)])
    /\ \E i \in 0..Len(q) :
          /\ i + Len(sent) =< Len(q)
          /\ SubSeq(q, i + 1, i + Len(sent)) = sent
          /\ \A k \in 1..i : isSpace(q[k])
          /\ \A k \in (i + Len(sent) + 1)..Len(q) : isSpace(q[k])

\* C5 (amended): the text handed to the SQL driver is the caller's query
\* with its leading and trailing whitespace removed and nothing else changed;
\* exactly one text is handed over.
C5_TrimmedText ==
    (req.op = "RunQuery" /\ sqlCalls # <<>>) =>
        (Len(sqlCalls) = 1 /\ isTrimOf(sqlCalls[1], req.query))

C5_Witness ==
    /\ req.op = "RunQuery"
    /\ req.query = <<" ", "s", " ">>
    /\ sqlCalls = << <<"s">> >>

\* C6: without a configured connection string no passthrough call reaches
\* the database; Status reports "not configured", ListTables and RunQuery
\* answer 503 "not configured", whatever the request body.
C6_UnconfiguredNeverCallsDb ==
    ~hasPg =>
        /\ sqlCalls = <<>>
        /\ req.op = "Status" =>
              /\ resp.type = "json"
              /\ resp.body = [connected |-> FALSE, error |-> NotConfigured]
        /\ req.op \in {"ListTables", "RunQuery"} =>
              resp = JsonError(503, NotConfigured)

C6_Witness ==
    /\ ~hasPg
    /\ req.op = "RunQuery"
    /\ req.body = "malformed"
    /\ resp.status = 503

\* the physical path of the file the ReadContent request r is about
readTarget(r) == safePath(r.path).path

\* the ReadContent request r names an existing regular file of the sandbox
readsExistingFile(r) ==
    /\ r.op = "ReadContent"
    /\ r.hasPath /\ r.path # <<>>
    /\ safePath(r.path).ok
    /\ readTarget(r) \in DOMAIN fs
    /\ ~fs[readTarget(r)].isDir

\* C7: ReadContent of an existing file larger than 1 MiB answers 413 with the
\* file's size and no content; a file of at most 1 MiB is answered 200 with
\* its whole decoded content and its size.
C7_PreviewLimit ==
    readsExistingFile(req) =>
        LET data == fs[readTarget(req)].data
            size == Len(data.bytes) + data.pad
        IN IF size > 1024 * 1024
           THEN /\ resp.type = "json"
                /\ resp.status = 413
                /\ DOMAIN resp.body = {"error", "size"}
                /\ resp.body.size = size
           ELSE /\ resp.type = "json"
                /\ resp.status = 200
                /\ DOMAIN resp.body = {"content", "size"}
                /\ resp.body.size = size
                /\ resp.body.content = decodeText(data)

C7_Witness ==
    /\ readsExistingFile(req)
    /\ resp.status = 413
    /\ resp.body.size = 1024 * 1024 + 1

----------------------------------------------------------------------------
(* Claims about consecutive requests (SpecSeq) *)

Done == Json(200, [ok |-> TRUE])

\* the number of bytes of the UTF-8 form of a text
RECURSIVE utf8Length(_)
utf8Length(units) ==
    IF units = <<>> THEN 0
    ELSE (IF Head(units) < 128 THEN 1 ELSE IF Head(units) < 2048 THEN 2 ELSE 3)
         + utf8Length(Tail(units))

\* the exchange e is a successful Create(p, "file", c)
isCreateFile(e) ==
    /\ e.req.op = "Create"
    /\ e.req.body = "object" /\ e.req.hasPath
    /\ e.req.kind = "file" /\ e.req.hasContent
    /\ e.resp = Done

\* the current exchange reads the file the previous exchange created
readsBack ==
    /\ Len(history) = 1
    /\ isCreateFile(history[1])
    /\ req.op = "ReadContent"
    /\ req.hasPath /\ req.path = history[1].req.path
    /\ utf8Length(history[1].req.content.units) + history[1].req.content.pad
          =< 1024 * 1024

\* C8 (as claimed): ReadContent right after a successful Create(p, "file", c)
\* returns content c and the byte length of c as size, for every string c of
\* at most 1 MiB.
C8_RoundTrip ==
    readsBack =>
        LET c == history[1].req.content
        IN resp = Json(200, [content |-> c, size |-> utf8Length(c.units) + c.pad])

\* the text holds no unpaired surrogate and does not start with a byte-order
\* mark
isPlainText(c) ==
    /\ \A i \in 1..Len(c.units) : ~(c.units[i] >= 55296 /\ c.units[i] =< 57343)
    /\ c.units = <<>> \/ c.units[1] # 65279

\* C8 (amended): ReadContent right after a successful Create(p, "file", c)
\* returns content c and the UTF-8 byte length of c as size, for every string
\* c of at most 1 MiB that holds no unpaired surrogate and does not start with
\* a byte-order mark.
C8_RoundTripPlainText ==
    (readsBack /\ isPlainText(history[1].req.content)) =>
        LET c == history[1].req.content
        IN resp = Json(200, [content |-> c, size |-> utf8Length(c.units) + c.pad])

C8_Witness ==
    /\ readsBack
    /\ history[1].req.content = Text(<<233>>, 0)
    /\ resp = Json(200, [content |-> Text(<<233>>, 0), size |-> 2])

\* the physical path the sandbox gives the logical path p
target(p) == safePath(p).path

\* the physical directory a List request lists
listTarget(r) ==
    target(IF r.hasPath /\ r.path # <<>> THEN r.path ELSE <<"/">>)

\* the names of a List response
itemNames(r) == {r.body.items[i].name : i \in 1..Len(r.body.items)}

\* the previous exchange created directory p, the current one deleted p
createdThenDeleted ==
    /\ Len(history) = 1
    /\ history[1].req.op = "Create"
    /\ history[1].req.body = "object" /\ history[1].req.hasPath
    /\ history[1].req.kind = "directory"
    /\ history[1].resp = Done
    /\ req.op = "Delete"
    /\ req.hasPath /\ req.path = history[1].req.path
    /\ resp = Done

\* C9: when Create(p, "directory") is followed at once by a successful
\* Delete(p), a List of p's parent served next has no entry named after p's
\* last segment.
C9_DeletedEntryNotListed ==
    [][(/\ createdThenDeleted
        /\ req'.op = "List"
        /\ resp'.status = 200
        /\ listTarget(req') = fsParent(target(req.path)))
          => baseName(target(req.path)) \notin itemNames(resp')]_vars

C9_Witness ==
    /\ createdThenDeleted
    /\ req.path = Lit_ab
    /\ target(req.path) \notin DOMAIN fs
    /\ LET l == ListHandler(fs, [op |-> "List", hasPath |-> FALSE, path |-> <<>>])
       IN /\ l.resp.status = 200
          /\ target(<<"/">>) = fsParent(target(req.path))
          /\ Lit_ab \notin itemNames(l.resp)

\* the current exchange is a successful Upload(d, name, data)
uploaded ==
    /\ req.op = "Upload"
    /\ req.body = "form" /\ req.hasFile /\ req.hasPath
    /\ resp = Done

\* the previous exchange created the fresh directory d, the current one
\* uploaded a file to d
createdThenUploaded ==
    /\ Len(history) = 1
    /\ history[1].req.op = "Create"
    /\ history[1].req.body = "object" /\ history[1].req.hasPath
    /\ history[1].req.kind = "directory"
    /\ history[1].resp = Done
    /\ target(history[1].req.path) \in history[1].added
    /\ uploaded
    /\ req.path = history[1].req.path

\* the previous and the current exchange uploaded to the same directory under
\* the same name
uploadedTwice ==
    /\ Len(history) = 1
    /\ history[1].req.op = "Upload"
    /\ history[1].req.body = "form" /\ history[1].req.hasFile
    /\ history[1].req.hasPath
    /\ history[1].resp = Done
    /\ uploaded
    /\ req.path = history[1].req.path
    /\ req.name = history[1].req.name

\* the physical path an Upload request writes
uploadTarget(r) == target(join(r.path, r.name))

\* C10: after Create(d, "directory") on a fresh path d and Upload(d, name,
\* bytes), List(d) returns exactly one entry: name, not a directory, size the
\* number of bytes uploaded; a second Upload to the same name adds no entry
\* and replaces the file's bytes.
C10_UploadThenList ==
    [][/\ (createdThenUploaded /\ req'.op = "List"
              /\ req'.hasPath /\ req'.path = req.path) =>
             /\ resp'.status = 200
             /\ Len(resp'.body.items) = 1
             /\ resp'.body.items[1].name = req.name
             /\ ~resp'.body.items[1].isDirectory
             /\ resp'.body.items[1].size = Len(req.data.bytes) + req.data.pad
       /\ uploadedTwice =>
             /\ added = {}
             /\ fs[uploadTarget(req)] = FileNode(req.data)]_vars

\* the entries of a successful List response
listed == resp.body.items

\* the current exchange is a successful List
listedOk == req.op = "List" /\ resp.type = "json" /\ resp.status = 200

\* C11: the items of a List response are ordered: every directory comes
\* before every non-directory, and within each of the two groups the names
\* ascend in the order of localeCompare.
C11_DirectoriesFirstThenByName ==
    listedOk =>
        \A i, j \in 1..Len(listed) :
            i < j =>
                /\ listed[j].isDirectory => listed[i].isDirectory
                /\ listed[i].isDirectory = listed[j].isDirectory
                       => localeLess(listed[i].name, listed[j].name)

\* a listing of three entries where a directory precedes a file whose name
\* sorts before the directory's, and two entries of one group follow each other
C11_Witness ==
    /\ listedOk
    /\ Len(listed) = 3
    /\ \E i \in 1..2 :
           /\ listed[i].isDirectory /\ ~listed[i + 1].isDirectory
           /\ localeLess(listed[i + 1].name, listed[i].name)
    /\ \E i \in 1..2 : listed[i].isDirectory = listed[i + 1].isDirectory

\* r is a read request whose logical path passes the sandbox
readsInside(r) ==
    /\ r.op \in {"List", "ReadContent", "Download"}
    /\ sandboxArg(r).reached
    /\ safePath(sandboxArg(r).path).ok

\* nothing exists at the physical path p of filesystem f
missing(f, p) == p \notin DOMAIN f \/ f[p].dangling

\* C12: List, ReadContent and Download on a logical path that passes the
\* sandbox and whose physical target does not exist are answered 404 with an
\* error envelope, and the step leaves the filesystem as it was.
C12_MissingTargetIsNotFound ==
    [][(readsInside(req') /\ missing(fs, target(sandboxArg(req').path))) =>
          /\ isErrorEnvelope(resp')
          /\ resp'.status = 404
          /\ fs' = fs]_vars

\* a Download of a path below the root that holds nothing
C12_Witness ==
    /\ req.op = "Download"
    /\ readsInside(req)
    /\ missing(fs, target(req.path))
    /\ resp = JsonError(404, "File not found")

\* q is the physical path p or lies beneath it
atOrBelow(q, p) ==
    q = p \/ startsWith(q, IF p = <<"/">> THEN p ELSE p \o <<"/">>)

\* C13: a successful Delete(p) removes p and everything beneath p, and
\* leaves every other entry of the filesystem as it was.
C13_DeleteRemovesSubtreeOnly ==
    [][(req'.op = "Delete" /\ resp' = Done) =>
          LET t == target(req'.path)
          IN /\ t \in DOMAIN fs
             /\ DOMAIN fs' = {q \in DOMAIN fs : ~atOrBelow(q, t)}
             /\ \A q \in DOMAIN fs' : fs'[q] = fs[q]]_vars

\* a file was uploaded into a directory, the directory was then deleted, and
\* the file is gone with it while an entry beside the directory remains
C13_Witness ==
    /\ req.op = "Delete" /\ resp = Done
    /\ Len(history) = 1
    /\ history[1].req.op = "Upload" /\ history[1].resp = Done
    /\ history[1].req.hasPath
    /\ uploadTarget(history[1].req) # target(req.path)
    /\ atOrBelow(uploadTarget(history[1].req), target(req.path))
    /\ uploadTarget(history[1].req) \notin DOMAIN fs
    /\ \E q \in DOMAIN fs : fsParent(q) = fsParent(target(req.path)) /\ ~fs[q].isDir

\* the physical path p and every directory above it
upTo(p) ==
    {<<"/">>, p} \cup {SubSeq(p, 1, i - 1) : i \in {k \in 2..Len(p) : p[k] = "/"}}

\* r asks for a directory to be created
createsDirectory(r) ==
    r.op = "Create" /\ r.body = "object" /\ r.hasPath /\ r.kind = "directory"

\* C14: a successful Create with kind "directory" leaves the directory and
\* all its ancestors in place as directories and changes nothing that was
\* there; applied a second time with the same path it answers {ok: true}
\* again and leaves the filesystem, the directory's contents included,
\* exactly as the first application left it.
C14_CreateDirectoryIdempotent ==
    [][/\ (createsDirectory(req') /\ resp' = Done) =>
             LET t == target(req'.path)
             IN /\ \A q \in upTo(t) : q \in DOMAIN fs' /\ fs'[q].isDir
                /\ \A q \in DOMAIN fs : q \in DOMAIN fs' /\ fs'[q] = fs[q]
                /\ (DOMAIN fs' \ DOMAIN fs) \subseteq upTo(t)
       /\ (createsDirectory(req) /\ resp = Done /\ req' = req) =>
             (resp' = Done /\ fs' = fs)]_vars

\* Create "directory" answered {ok: true} on a directory that was already
\* there and holds an entry
C14_Witness ==
    /\ createsDirectory(req) /\ resp = Done
    /\ added = {}
    /\ \E q \in DOMAIN fs : q # target(req.path) /\ fsParent(q) = target(req.path)

\* Create "directory" made a missing ancestor as well
C14_WitnessAncestors ==
    /\ createsDirectory(req) /\ resp = Done
    /\ \E q \in added : q # target(req.path)

\* r asks for a file to be created
createsFile(r) ==
    r.op = "Create" /\ r.body = "object" /\ r.hasPath /\ r.kind = "file"

\* the text r asks to be written
written(r) == IF r.hasContent THEN r.content ELSE [units |-> <<>>, pad |-> 0]

\* C15: a successful Create with kind "file" leaves the parent directory and
\* all its ancestors in place as directories and the target as a regular
\* file holding exactly the supplied content, whatever it held before; with
\* the content omitted the file is empty (size 0); nothing else changes.
C15_CreateFileWrites ==
    [][(createsFile(req') /\ resp' = Done) =>
          LET t == target(req'.path)
          IN /\ \A q \in upTo(t) \ {t} : q \in DOMAIN fs' /\ fs'[q].isDir
             /\ t \in DOMAIN fs' /\ ~fs'[t].isDir
             /\ fs'[t].data = encodeText(written(req'))
             /\ ~req'.hasContent => byteSize(fs'[t].data) = 0
             /\ \A q \in DOMAIN fs \ {t} : q \in DOMAIN fs' /\ fs'[q] = fs[q]
             /\ (DOMAIN fs' \ DOMAIN fs) \subseteq upTo(t)]_vars

\* Create "file" with content made a missing ancestor and wrote the content
C15_Witness ==
    /\ createsFile(req) /\ resp = Done
    /\ req.hasContent /\ req.content # [units |-> <<>>, pad |-> 0]
    /\ \E q \in added : q # target(req.path)
    /\ fs[target(req.path)].data = encodeText(req.content)

\* Create "file" without content emptied a file that was already there
C15_WitnessEmptied ==
    /\ createsFile(req) /\ resp = Done
    /\ ~req.hasContent
    /\ added = {}
    /\ byteSize(fs[target(req.path)].data) = 0

\* the directories of filesystem f
directories(f) == {q \in DOMAIN f : f[q].isDir}

\* the physical path an Upload request writes
uploadFile(r) ==
    target(join(IF r.hasPath /\ r.path # <<>> THEN r.path ELSE <<"/">>, r.name))

\* r is an Upload carrying a file whose destination passes the sandbox, and
\* the directory the file goes to is not in filesystem f
uploadsToMissing(f, r) ==
    /\ r.op = "Upload" /\ r.body = "form" /\ r.hasFile
    /\ safePath(join(IF r.hasPath /\ r.path # <<>> THEN r.path ELSE <<"/">>,
                      r.name)).ok
    /\ fsParent(uploadFile(r)) \notin DOMAIN f

\* C16 as stated: when the destination directory does not exist, Upload
\* creates no directory; the set of directories is the same before and after.
C16_UploadCreatesNoDirectory ==
    [][uploadsToMissing(fs, req') => directories(fs') = directories(fs)]_vars

\* C16 amended: when the destination directory does not exist and nothing
\* above it is a regular file, Upload succeeds; the write creates the
\* destination directory and its missing ancestors, and no other directory,
\* and puts the uploaded bytes there.
C16_UploadCreatesMissingParents ==
    [][(/\ uploadsToMissing(fs, req')
        /\ \A q \in upTo(uploadFile(req')) : q \in DOMAIN fs => fs[q].isDir) =>
          /\ resp' = Done
          /\ directories(fs') =
                 directories(fs) \cup (upTo(uploadFile(req')) \ {uploadFile(req')})
          /\ fs'[uploadFile(req')] = FileNode(req'.data)]_vars

\* an Upload answered {ok: true} that added a directory
C16_Witness ==
    /\ req.op = "Upload" /\ req.body = "form" /\ req.hasFile
    /\ resp = Done
    /\ fsParent(uploadFile(req)) \in added
    /\ fs[fsParent(uploadFile(req))].isDir

\* the physical path of the child a List response names `name`
childPath(name) ==
    IF listTarget(req) = <<"/">> THEN <<"/">> \o name
    ELSE listTarget(req) \o <<"/">> \o name

\* stat fails for the physical path p
statFails(p) == p \notin DOMAIN fs \/ fs[p].dangling

\* C17 as stated: every entry of a List response has size 0 when it is a
\* directory or when its stat failed; only a regular file whose stat
\* succeeded carries a non-zero size.
C17_DirectorySizeZero ==
    listedOk =>
        \A i \in 1..Len(listed) :
            (listed[i].isDirectory \/ statFails(childPath(listed[i].name)))
                => listed[i].size = 0

\* C17 amended: an entry of a List response has size 0 when its stat
\* failed; otherwise its size is the size stat reports, the byte length for
\* a regular file and the directory's own stat size for a directory.
C17_SizeIsStatSize ==
    listedOk =>
        \A i \in 1..Len(listed) :
            LET q == childPath(listed[i].name)
            IN listed[i].size =
                  IF statFails(q) THEN 0
                  ELSE IF fs[q].isDir THEN DirStatSize
                  ELSE Len(fs[q].data.bytes) + fs[q].data.pad

\* a listing with a directory of non-zero size, a file of three bytes and
\* an entry whose stat failed
C17_Witness ==
    /\ listedOk
    /\ \E i \in 1..Len(listed) : listed[i].isDirectory /\ listed[i].size > 0
    /\ \E i \in 1..Len(listed) : ~listed[i].isDirectory /\ listed[i].size = 3
    /\ \E i \in 1..Len(listed) :
           statFails(childPath(listed[i].name)) /\ listed[i].size = 0

\* the current exchange is a List of an existing directory of the sandbox
listsDirectory ==
    /\ req.op = "List"
    /\ safePath(sandboxArg(req).path).ok
    /\ listTarget(req) \in DOMAIN fs
    /\ fs[listTarget(req)].isDir

\* C18: List is best-effort per entry: when stat fails for any subset of
\* the children of the listed directory, the response is still a 200 with
\* exactly one entry per child, and each child whose stat failed has size 0
\* and the defaulted modification time.
C18_ListBestEffort ==
    listsDirectory =>
        /\ resp.type = "json" /\ resp.status = 200
        /\ Len(listed) = Cardinality({q \in DOMAIN fs : q # listTarget(req)
                                         /\ fsParent(q) = listTarget(req)})
        /\ \A q \in DOMAIN fs :
               (q # listTarget(req) /\ fsParent(q) = listTarget(req)) =>
                   \E i \in 1..Len(listed) :
                       /\ childPath(listed[i].name) = q
                       /\ statFails(q) =>
                              (listed[i].size = 0 /\ listed[i].modified = "now")

\* a listing of three children where stat failed for two of them
C18_Witness ==
    /\ listsDirectory
    /\ resp.status = 200
    /\ Len(listed) = 3
    /\ Cardinality({i \in 1..3 : statFails(childPath(listed[i].name))}) = 2
    /\ \E i \in 1..3 : listed[i].modified = "mtime"

\* the driver was called while req was served, and its statement succeeded
roundTripOk == hasPg /\ sqlCalls # <<>> /\ dbReply.ok

\* C19: Status always answers with a result object at HTTP 200, whether the
\* database is unconfigured, unreachable or the query fails; connected is
\* true only when the round-trip statement succeeded, and otherwise
\* connected is false and an error description is given.
C19_StatusAlwaysAnswers ==
    req.op = "Status" =>
        /\ resp.type = "json" /\ resp.status = 200
        /\ "connected" \in DOMAIN resp.body
        /\ resp.body.connected => (roundTripOk /\ "error" \notin DOMAIN resp.body)
        /\ ~resp.body.connected => "error" \in DOMAIN resp.body
        /\ ~roundTripOk => ~resp.body.connected

\* the statement of Status reached the driver and failed there
C19_Witness ==
    /\ req.op = "Status"
    /\ hasPg /\ sqlCalls # <<>> /\ ~dbReply.ok
    /\ resp = Json(200, [connected |-> FALSE, error |-> dbReply.error])

\* the current exchange is a RunQuery answered with a result
queriedOk == req.op = "RunQuery" /\ resp.type = "json" /\ resp.status = 200

\* C20: in every successful RunQuery result, rowCount is the number of rows
\* returned, columns is the sequence of keys of the first row, and columns
\* is empty when there is no row.
C20_QueryResultShape ==
    queriedOk =>
        /\ resp.body.rows = dbReply.rows
        /\ resp.body.rowCount = Len(resp.body.rows)
        /\ resp.body.columns =
               IF Len(resp.body.rows) = 0 THEN <<>>
               ELSE [i \in 1..Len(resp.body.rows[1]) |-> resp.body.rows[1][i][1]]

\* a result of two rows of one column
C20_Witness ==
    /\ queriedOk
    /\ Len(resp.body.rows) = 2
    /\ resp.body.rowCount = 2
    /\ resp.body.columns = <<"ok">>

\* a result without rows
C20_WitnessEmpty ==
    /\ queriedOk
    /\ resp.body.rows = <<>>
    /\ resp.body.columns = <<>>
    /\ resp.body.rowCount = 0

\* C21: once the server has started the root directory exists in every
\* reachable state; no Create, Delete or Upload request removes the root.
C21_RootAlwaysExists ==
    VOLUME_ROOT \in DOMAIN fs /\ fs[VOLUME_ROOT].isDir

\* the suspended handler has answered
answered(op) == flight.req.op = op /\ flight.pc = "done"

\* a handler that ran with no change of the filesystem since it began
\* answers as the handler run in one piece
RaceSerialAnswer ==
    (flight.pc = "done" /\ ~flight.raced) =>
        flight.resp = IF flight.req.op = "List" THEN ListHandler(fs, flight.req).resp
                      ELSE ContentHandler(fs, flight.req).resp

\* the number of bytes of the UTF-8 form of a response's content
contentBytes(r) == utf8Length(r.body.content.units) + r.body.content.pad

\* the suspended ReadContent has answered 200
readOk == answered("ReadContent") /\ flight.resp.status = 200

\* C22 as stated: every successful ReadContent response carries a content of
\* at most 1 MiB whose byte length is the reported size, also when a Create
\* or Upload on the path lands between the stat and the read.
C22_ContentMatchesSize ==
    readOk =>
        /\ contentBytes(flight.resp) =< 1024 * 1024
        /\ contentBytes(flight.resp) = flight.resp.body.size

\* C22 amended: a successful ReadContent response reports the size stat
\* returned, which is at most 1 MiB; when the filesystem did not change
\* while the request was handled, that size is the byte length of the file
\* and the content is the decoded text of the file.
C22_SizeCheckedBeforeRead ==
    readOk =>
        /\ flight.resp.body.size =< 1024 * 1024
        /\ ~flight.raced =>
               LET data == fs[target(flight.req.path)].data
               IN /\ flight.resp.body.size = Len(data.bytes) + data.pad
                  /\ flight.resp.body.content = decodeText(data)

\* a write landed between the stat and the read: the response carries more
\* than 1 MiB of content under a reported size of a few bytes
C22_Witness ==
    /\ readOk
    /\ flight.raced
    /\ contentBytes(flight.resp) > 1024 * 1024
    /\ flight.resp.body.size < 4

\* the physical path the suspended handler is about
flightTarget ==
    target(IF flight.req.op = "List" THEN dirPathOf(flight.req) ELSE flight.req.path)

\* the suspended handler found its target missing after the existence check
lostTarget == flight.pc = "done" /\ flight.resp = JsonError(400, "ENOENT")

\* C23 as stated: List and ReadContent answer 404 whenever their target is
\* absent at the moment they access it; a Delete landing between the
\* existence check and the readdir or stat still gives 404, never a 400
\* carrying the filesystem's message.
C23_AbsentIsAlwaysNotFound == ~lostTarget

\* C23 amended: List and ReadContent answer 404 when their target is absent
\* at the existence check; a 400 carrying the filesystem's ENOENT is answered
\* only when the filesystem changed after the check, and a request handled
\* without such a change answers 404 for a missing target.
C23_NotFoundAtTheCheck ==
    /\ lostTarget => flight.raced
    /\ (/\ flight.pc = "done" /\ ~flight.raced
        /\ sandboxArg(flight.req).reached
        /\ safePath(sandboxArg(flight.req).path).ok
        /\ missing(fs, flightTarget)) =>
           (flight.resp.status = 404 /\ isErrorEnvelope(flight.resp))

\* a List passed the existence check, a Delete removed the directory, and
\* readdir failed
C23_Witness ==
    /\ answered("List")
    /\ lostTarget
    /\ flight.raced
    /\ req.op = "Delete" /\ resp = Done
    /\ missing(fs, flightTarget)

\* a ReadContent passed the existence check and lost its file before the stat
C23_WitnessRead ==
    /\ answered("ReadContent")
    /\ lostTarget
    /\ missing(fs, flightTarget)

\* C24: in the query console result and queryError are never both non-null,
\* also when a second runQuery is started while an earlier one is in flight
\* and the two responses arrive in any order.
C24_ResultXorError ==
    ui.view = "console" => (ui.result.isNull \/ ui.queryError.isNull)

\* the most recent call of fetchFiles
latestCall == ui.calls[Len(ui.calls)]

createsAt(r) == r.op = "Create" /\ r.body = "object" /\ r.hasPath

\* C26: Create makes a directory only when kind is exactly "directory"; with
\* every other kind, a missing one included, it acts as with kind "file"
\* (parent directories, then the content written) and answers the same, so
\* no request is refused for its kind.
C26_OnlyDirectoryIsDirectory ==
    [][createsAt(req') =>
          LET t == target(req'.path)
              asFile == CreateHandler(fs, [req' EXCEPT !.kind = "file"])
          IN /\ req'.kind # "directory" => (resp' = asFile.resp /\ fs' = asFile.fs)
             /\ (req'.kind # "directory" /\ resp' = Done) =>
                    (~fs'[t].isDir /\ fs'[t].data = encodeText(written(req')))
             /\ (t \in DOMAIN fs' /\ fs'[t].isDir /\ (t \notin DOMAIN fs \/ ~fs[t].isDir))
                    => req'.kind = "directory"]_vars

\* a Create with an unrecognised kind wrote a file
C26_Witness ==
    /\ createsAt(req)
    /\ req.kind = "folder"
    /\ resp = Done
    /\ ~fs[target(req.path)].isDir

\* a Create without a kind wrote a file
C26_WitnessMissing ==
    /\ createsAt(req)
    /\ req.kind = "undefined"
    /\ resp = Done
    /\ ~fs[target(req.path)].isDir

====
